---- MODULE Spec2Model ----
(***************************************************************************)
(* Model of package twirest (twirest.go): NewClient, TwilioClient.Request, *)
(* httpRequest, queryString, urlString, exceptionToErr and required.       *)
(* Strings are sequences of one-character strings, so that prefixes,       *)
(* suffixes, separators and escaping are properties of the text built.     *)
(***************************************************************************)
EXTENDS Integers, Sequences, FiniteSets, TLC

VARIABLES
    client,     \* the TwilioClient NewClient built (accountSid, authUser, authToken)
    authBits,   \* the argument list NewClient was called with
    pc,         \* "start", "failed" (NewClient returned an error), "ready", "returned"
    reqStruct,  \* the request struct given to the Request call that returned last
    sent,       \* the requests that call executed on the transport, in order
    reply,      \* what the transport gave back to that call
    ret         \* what the call returned: the TwilioResponse and the error

vars == <<client, authBits, pc, reqStruct, sent, reply, ret>>

\* Longest MediaUrl sequence of a SendMessage that the model enumerates.
MaxSlice == 2
\* Longest argument list handed to NewClient.
MaxArgs == 4

(***************************************************************************)
(* Text helpers                                                            *)
(***************************************************************************)
RECURSIVE Concat(_)
\* The concatenation of a sequence of strings (repeated +=).
Concat(ss) == IF ss = <<>> THEN <<>> ELSE Head(ss) \o Concat(Tail(ss))

RECURSIVE Split(_, _)
\* strings.Split(s, c) for a one-character separator c.
Split(s, c) ==
    IF \A i \in DOMAIN s : s[i] # c THEN <<s>>
    ELSE LET k == CHOOSE i \in DOMAIN s : s[i] = c /\ \A j \in 1..(i - 1) : s[j] # c
         IN  <<SubSeq(s, 1, k - 1)>> \o Split(SubSeq(s, k + 1, Len(s)), c)

SeqsUpTo(S, n) == UNION {[1..k -> S] : k \in 0..n}

(***************************************************************************)
(* Errors: a Go error value is nil or carries a message.                   *)
(***************************************************************************)
Nil == [nil |-> TRUE, msg |-> <<>>]
Errorf(msg) == [nil |-> FALSE, msg |-> msg]

RequiredMsg == <<"r", "e", "q", "u", "i", "r", "e", "d", " ", "f", "i", "e", "l", "d", " ", "m", "i", "s", "s", "i", "n", "g">>
ArityMsg == <<"2", " ", "o", "r", " ", "3", " ", "a", "r", "g", "u", "m", "e", "n", "t", "s", " ", "o", "n", "l", "y">>
ParseMsg == <<"i", "n", "v", "a", "l", "i", "d", " ", "U", "R", "L", " ", "e", "s", "c", "a", "p", "e">>
TransportMsg == <<"c", "o", "n", "n", "e", "c", "t", "i", "o", "n", " ", "r", "e", "f", "u", "s", "e", "d">>

(***************************************************************************)
(* Request structs.  A struct value is its type name and its fields in     *)
(* declaration order; a field has a name, a kind, a struct tag and a value.*)
(***************************************************************************)
Str(name, tag, val) == [name |-> name, kind |-> "string", tag |-> tag, val |-> val]
Slice(name, tag, val) == [name |-> name, kind |-> "slice", tag |-> tag, val |-> val]
Bool(name, val) == [name |-> name, kind |-> "bool", tag |-> <<>>, val |-> val]
\* The unexported path fields are never set by a caller: their value is "".
Resource(tag) == Str("resource", tag, <<>>)
Subresource(tag) == Str("subresource", tag, <<>>)
Struct(type, fields) == [type |-> type, fields |-> fields]

\* Values a caller gives to a field that is sent as a parameter.
StrVals == {<<>>, <<"a">>, <<"b", " ", "&">>}
\* Values of a Sid field: unset, an identifier, and text that is no URL path.
SidVals == {<<>>, <<"S", "1">>, <<"%">>}
\* Values of a call identifier: unset or an identifier.
CallSidVals == {<<>>, <<"C", "A", "1">>}
\* Values of a MediaUrl sequence.
SliceVals == SeqsUpTo({<<>>, <<"u", "&", "v">>}, MaxSlice)

SendMessageS ==
    {Struct("SendMessage", <<Resource(<<"/", "M", "e", "s", "s", "a", "g", "e", "s">>), Str("Text", <<"B", "o", "d", "y", "=">>, t),
                             Slice("MediaUrl", <<"M", "e", "d", "i", "a", "U", "r", "l", "=">>, m), Str("To", <<"T", "o", "=">>, to)>>) :
        t \in StrVals, m \in SliceVals, to \in StrVals}
MessagesS ==
    {Struct("Messages", <<Resource(<<"/", "M", "e", "s", "s", "a", "g", "e", "s">>), Str("To", <<"T", "o", "=">>, to),
                          Str("From", <<"F", "r", "o", "m", "=">>, f)>>) : to \in StrVals, f \in StrVals}
MessageS ==
    {Struct("Message", <<Resource(<<"/", "M", "e", "s", "s", "a", "g", "e", "s">>), Str("Sid", <<>>, s), Bool("Media", b),
                         Str("MediaSid", <<>>, ms)>>) :
        s \in SidVals, b \in BOOLEAN, ms \in {<<>>, <<"M", "E", "1">>}}
MakeCallS ==
    {Struct("MakeCall", <<Resource(<<"/", "C", "a", "l", "l", "s">>), Str("From", <<"F", "r", "o", "m", "=">>, f),
                          Str("To", <<"T", "o", "=">>, to)>>) : f \in StrVals, to \in StrVals}
CallsS ==
    {Struct("Calls", <<Resource(<<"/", "C", "a", "l", "l", "s">>), Str("To", <<"T", "o", "=">>, to)>>) : to \in StrVals}
CallS ==
    {Struct("Call", <<Resource(<<"/", "C", "a", "l", "l", "s">>), Str("Sid", <<>>, s), Bool("Recordings", r),
                      Bool("Notifications", n)>>) :
        s \in SidVals, r \in BOOLEAN, n \in BOOLEAN}
ModifyCallS ==
    {Struct("ModifyCall", <<Resource(<<"/", "C", "a", "l", "l", "s">>), Str("Sid", <<>>, s),
                            Str("Url", <<"U", "r", "l", "=">>, u)>>) : s \in SidVals, u \in StrVals}
AccountsS ==
    {Struct("Accounts", <<Str("FriendlyName", <<"F", "r", "i", "e", "n", "d", "l", "y", "N", "a", "m", "e", "=">>, f)>>) : f \in StrVals}
NotificationsS ==
    {Struct("Notifications", <<Resource(<<"/", "N", "o", "t", "i", "f", "i", "c", "a", "t", "i", "o", "n", "s">>), Str("Log", <<"L", "o", "g", "=">>, l)>>) :
        l \in StrVals}
DeleteNotificationS ==
    {Struct("DeleteNotification", <<Resource(<<"/", "N", "o", "t", "i", "f", "i", "c", "a", "t", "i", "o", "n", "s">>), Str("Sid", <<>>, s)>>) :
        s \in SidVals}
OutgoingCallerIdsS ==
    {Struct("OutgoingCallerIds", <<Resource(<<"/", "O", "u", "t", "g", "o", "i", "n", "g", "C", "a", "l", "l", "e", "r", "I", "d", "s">>),
                                   Str("PhoneNumber", <<"P", "h", "o", "n", "e", "N", "u", "m", "b", "e", "r", "=">>, p)>>) : p \in StrVals}
AddOutgoingCallerIdS ==
    {Struct("AddOutgoingCallerId", <<Resource(<<"/", "O", "u", "t", "g", "o", "i", "n", "g", "C", "a", "l", "l", "e", "r", "I", "d", "s">>),
                                     Str("PhoneNumber", <<"P", "h", "o", "n", "e", "N", "u", "m", "b", "e", "r", "=">>, p)>>) : p \in StrVals}
UpdateOutgoingCallerIdS ==
    {Struct("UpdateOutgoingCallerId", <<Resource(<<"/", "O", "u", "t", "g", "o", "i", "n", "g", "C", "a", "l", "l", "e", "r", "I", "d", "s">>), Str("Sid", <<>>, s),
                                        Str("FriendlyName", <<"F", "r", "i", "e", "n", "d", "l", "y", "N", "a", "m", "e", "=">>, f)>>) :
        s \in SidVals, f \in StrVals}
DeleteOutgoingCallerIdS ==
    {Struct("DeleteOutgoingCallerId", <<Resource(<<"/", "O", "u", "t", "g", "o", "i", "n", "g", "C", "a", "l", "l", "e", "r", "I", "d", "s">>),
                                        Str("Sid", <<>>, s)>>) : s \in SidVals}
RecordingsS ==
    {Struct("Recordings", <<Resource(<<"/", "R", "e", "c", "o", "r", "d", "i", "n", "g", "s">>), Str("CallSid", <<"C", "a", "l", "l", "S", "i", "d", "=">>, c)>>) :
        c \in CallSidVals}
RecordingS ==
    {Struct("Recording", <<Resource(<<"/", "R", "e", "c", "o", "r", "d", "i", "n", "g", "s">>), Str("Sid", <<>>, s),
                           Bool("GetRecording", g), Bool("GetMP3", m)>>) :
        s \in SidVals, g \in BOOLEAN, m \in BOOLEAN}
DeleteRecordingS ==
    {Struct("DeleteRecording", <<Resource(<<"/", "R", "e", "c", "o", "r", "d", "i", "n", "g", "s">>), Str("Sid", <<>>, s)>>) :
        s \in SidVals}
UsageRecordsS ==
    {Struct("UsageRecords", <<Resource(<<"/", "U", "s", "a", "g", "e", "/", "R", "e", "c", "o", "r", "d", "s">>), Str("SubResource", <<>>, sr),
                              Str("Category", <<"C", "a", "t", "e", "g", "o", "r", "y", "=">>, c)>>) :
        sr \in {<<>>, <<"D", "a", "i", "l", "y">>}, c \in StrVals}
QueueS ==
    {Struct("Queue", <<Resource(<<"/", "Q", "u", "e", "u", "e", "s">>), Str("Sid", <<>>, s)>>) : s \in SidVals}
CreateQueueS ==
    {Struct("CreateQueue", <<Resource(<<"/", "Q", "u", "e", "u", "e", "s">>),
                             Str("FriendlyName", <<"F", "r", "i", "e", "n", "d", "l", "y", "N", "a", "m", "e", "=">>, f)>>) : f \in StrVals}
ChangeQueueS ==
    {Struct("ChangeQueue", <<Resource(<<"/", "Q", "u", "e", "u", "e", "s">>), Str("Sid", <<>>, s),
                             Str("FriendlyName", <<"F", "r", "i", "e", "n", "d", "l", "y", "N", "a", "m", "e", "=">>, f)>>) :
        s \in SidVals, f \in StrVals}
DeleteQueueS ==
    {Struct("DeleteQueue", <<Resource(<<"/", "Q", "u", "e", "u", "e", "s">>), Str("Sid", <<>>, s)>>) : s \in SidVals}
QueueMemberS ==
    {Struct("QueueMember", <<Resource(<<"/", "Q", "u", "e", "u", "e", "s">>), Str("Sid", <<>>, s),
                             Subresource(<<"/", "M", "e", "m", "b", "e", "r", "s">>), Str("CallSid", <<>>, c),
                             Bool("Front", f)>>) :
        s \in SidVals, c \in CallSidVals, f \in BOOLEAN}
DeQueueS ==
    {Struct("DeQueue", <<Resource(<<"/", "Q", "u", "e", "u", "e", "s">>), Str("Sid", <<>>, s),
                         Subresource(<<"/", "M", "e", "m", "b", "e", "r", "s">>), Str("CallSid", <<>>, c),
                         Bool("Front", f), Str("Url", <<"U", "r", "l", "=">>, u)>>) :
        s \in SidVals, c \in CallSidVals, f \in BOOLEAN, u \in StrVals}
CreateIncomingPhoneNumberS ==
    {Struct("CreateIncomingPhoneNumber", <<Resource(<<"/", "I", "n", "c", "o", "m", "i", "n", "g", "P", "h", "o", "n", "e", "N", "u", "m", "b", "e", "r", "s">>),
                                           Str("PhoneNumber", <<"P", "h", "o", "n", "e", "N", "u", "m", "b", "e", "r", "=">>, p)>>) :
        p \in StrVals}
ConferencesS ==
    {Struct("Conferences", <<Resource(<<"/", "C", "o", "n", "f", "e", "r", "e", "n", "c", "e", "s">>), Str("Status", <<"S", "t", "a", "t", "u", "s", "=">>, st)>>) :
        st \in StrVals}
ParticipantsS ==
    {Struct("Participants", <<Resource(<<"/", "C", "o", "n", "f", "e", "r", "e", "n", "c", "e", "s">>), Str("Sid", <<>>, s),
                              Subresource(<<"/", "P", "a", "r", "t", "i", "c", "i", "p", "a", "n", "t", "s">>), Str("Muted", <<"M", "u", "t", "e", "d", "=">>, mu)>>) :
        s \in SidVals, mu \in StrVals}
ParticipantS ==
    {Struct("Participant", <<Resource(<<"/", "C", "o", "n", "f", "e", "r", "e", "n", "c", "e", "s">>), Str("Sid", <<>>, s),
                             Subresource(<<"/", "P", "a", "r", "t", "i", "c", "i", "p", "a", "n", "t", "s">>), Str("CallSid", <<>>, c)>>) :
        s \in SidVals, c \in CallSidVals}
UpdateParticipantS ==
    {Struct("UpdateParticipant", <<Resource(<<"/", "C", "o", "n", "f", "e", "r", "e", "n", "c", "e", "s">>), Str("Sid", <<>>, s),
                                   Subresource(<<"/", "P", "a", "r", "t", "i", "c", "i", "p", "a", "n", "t", "s">>), Str("CallSid", <<>>, c),
                                   Str("Muted", <<"M", "u", "t", "e", "d", "=">>, mu)>>) :
        s \in SidVals, c \in CallSidVals, mu \in StrVals}
DeleteParticipantS ==
    {Struct("DeleteParticipant", <<Resource(<<"/", "C", "o", "n", "f", "e", "r", "e", "n", "c", "e", "s">>), Str("Sid", <<>>, s),
                                   Subresource(<<"/", "P", "a", "r", "t", "i", "c", "i", "p", "a", "n", "t", "s">>), Str("CallSid", <<>>, c)>>) :
        s \in SidVals, c \in CallSidVals}
AvailablePhoneNumbersS ==
    {Struct("AvailablePhoneNumbers", <<Resource(<<"/", "A", "v", "a", "i", "l", "a", "b", "l", "e", "P", "h", "o", "n", "e", "N", "u", "m", "b", "e", "r", "s">>),
                                       Str("CountryCode", <<>>, cc), Str("Type", <<>>, ty),
                                       Str("AreaCode", <<"A", "r", "e", "a", "C", "o", "d", "e", "=">>, ac)>>) :
        cc \in {<<>>, <<"U", "S">>}, ty \in {<<>>, <<"L", "o", "c", "a", "l">>}, ac \in StrVals}

\* Every request struct value the model hands to Request.
Structs ==
    SendMessageS \cup MessagesS \cup MessageS \cup MakeCallS \cup CallsS \cup CallS
    \cup ModifyCallS \cup AccountsS \cup NotificationsS \cup DeleteNotificationS
    \cup OutgoingCallerIdsS \cup AddOutgoingCallerIdS \cup UpdateOutgoingCallerIdS
    \cup DeleteOutgoingCallerIdS \cup RecordingsS \cup RecordingS \cup DeleteRecordingS
    \cup UsageRecordsS \cup QueueS \cup CreateQueueS \cup ChangeQueueS \cup DeleteQueueS
    \cup QueueMemberS \cup DeQueueS \cup CreateIncomingPhoneNumberS \cup ConferencesS
    \cup ParticipantsS \cup ParticipantS \cup UpdateParticipantS \cup DeleteParticipantS
    \cup AvailablePhoneNumbersS

HasField(d, n) == \E i \in DOMAIN d.fields : d.fields[i].name = n
Field(d, n) == d.fields[CHOOSE i \in DOMAIN d.fields : d.fields[i].name = n]
\* reflect.Value.String(): the string itself for a string, a placeholder otherwise.
StringOf(f) ==
    IF f.kind = "string" THEN f.val
    ELSE IF f.kind = "bool" THEN <<"<", "b", "o", "o", "l", " ", "V", "a", "l", "u", "e", ">">> ELSE <<"<", "[", "]", "s", "t", "r", "i", "n", "g", " ", "V", "a", "l", "u", "e", ">">>

(***************************************************************************)
(* NewClient                                                               *)
(***************************************************************************)
NoClient == [accountSid |-> <<>>, authUser |-> <<>>, authToken |-> <<>>]

\* The values the model passes at each position of NewClient's argument list.
CredAt(i) == IF i = 1 THEN {<<>>, <<"A", "C", "1">>} ELSE IF i = 2 THEN {<<>>, <<"S", "K", "1">>} ELSE {<<"t", "o", "k">>}
ArgLists ==
    UNION {{a \in [1..n -> {<<>>, <<"A", "C", "1">>, <<"S", "K", "1">>, <<"t", "o", "k">>}] : \A i \in 1..n : a[i] \in CredAt(i)} :
              n \in 0..MaxArgs}

NewClient(bits) ==
    IF Len(bits) <= 1 \/ Len(bits) > 3
    THEN [c |-> NoClient, err |-> Errorf(ArityMsg)]
    ELSE [c |-> [accountSid |-> bits[1],
                 authUser |-> IF Len(bits) = 2 THEN <<>> ELSE bits[2],
                 authToken |-> IF Len(bits) = 2 THEN bits[2] ELSE bits[3]],
          err |-> Nil]

(***************************************************************************)
(* required, queryString, urlString                                        *)
(***************************************************************************)
requiredNever(s) == Nil
required(s) == IF s = <<>> THEN Errorf(RequiredMsg) ELSE Nil

\* url.QueryEscape on one character: letters, digits and - _ . ~ are kept,
\* a space becomes +, every other byte becomes %XX.
EscapeChar(c) ==
    CASE c = " " -> <<"+">>
      [] c = "&" -> <<"%", "2", "6">>
      [] c = "=" -> <<"%", "3", "D">>
      [] c = "/" -> <<"%", "2", "F">>
      [] c = "?" -> <<"%", "3", "F">>
      [] c = "+" -> <<"%", "2", "B">>
      [] c = "%" -> <<"%", "2", "5">>
      [] c = ":" -> <<"%", "3", "A">>
      [] OTHER -> <<c>>
QueryEscapeNone(s) == s
QueryEscape(s) == Concat([i \in DOMAIN s |-> EscapeChar(s[i])])

\* The types queryString's switch lists; any other type takes the empty default.
QueryTypes ==
    {"SendMessage", "Messages", "MakeCall", "Calls", "ModifyCall", "Accounts",
     "Notifications", "OutgoingCallerIds", "Recordings", "UsageRecords",
     "CreateQueue", "ChangeQueue", "DeQueue", "CreateIncomingPhoneNumber",
     "Conferences", "Participants", "AvailablePhoneNumbers"}

\* What one field adds to qryStr in the loop over the struct's fields.
FieldQuery(f) ==
    (IF f.kind = "string" /\ f.tag # <<>> /\ StringOf(f) # <<>>
     THEN f.tag \o QueryEscape(StringOf(f)) \o <<"&">> ELSE <<>>)
    \o
    (IF f.kind = "slice" /\ f.tag # <<>> /\ Len(f.val) > 0
     THEN Concat([i \in DOMAIN f.val |-> f.tag \o QueryEscape(f.val[i]) \o <<"&">>])
     ELSE <<>>)

queryString(d) ==
    IF d.type \in QueryTypes
    THEN LET qryStr == Concat([i \in DOMAIN d.fields |-> FieldQuery(d.fields[i])])
         IN  IF Len(qryStr) > 0 THEN SubSeq(qryStr, 1, Len(qryStr) - 1) ELSE qryStr
    ELSE <<>>

ApiVer == <<"2", "0", "1", "0", "-", "0", "4", "-", "0", "1">>
BaseUrl == <<"h", "t", "t", "p", "s", ":", "/", "/", "a", "p", "i", ".", "t", "w", "i", "l", "i", "o", ".", "c", "o", "m", "/">> \o ApiVer \o <<"/", "A", "c", "c", "o", "u", "n", "t", "s">>

\* The generic part: /Accounts/{accSid}{resource}/{Sid}{subresource}/{CallSid}
GenericUrl(d, accSid) ==
    LET u1 == IF HasField(d, "resource")
              THEN BaseUrl \o <<"/">> \o accSid \o Field(d, "resource").tag ELSE BaseUrl
        u2 == IF HasField(d, "Sid") THEN u1 \o <<"/">> \o StringOf(Field(d, "Sid")) ELSE u1
        u3 == IF HasField(d, "subresource") THEN u2 \o Field(d, "subresource").tag ELSE u2
    IN  IF HasField(d, "CallSid") /\ Field(d, "CallSid").tag = <<>>
        THEN u3 \o <<"/">> \o StringOf(Field(d, "CallSid")) ELSE u3

RecordingSuffixBoth(d, url) ==
    LET u1 == IF ~Field(d, "GetRecording").val THEN url \o <<".", "j", "s", "o", "n">> ELSE url
    IN  IF Field(d, "GetMP3").val THEN u1 \o <<".", "m", "p", "3">> ELSE u1
RecordingSuffix(d, url) ==
    LET u1 == IF ~Field(d, "GetRecording").val THEN url \o <<".", "j", "s", "o", "n">> ELSE url
    IN  IF Field(d, "GetRecording").val /\ Field(d, "GetMP3").val THEN u1 \o <<".", "m", "p", "3">> ELSE u1

FrontSuffixAlways(d, url) ==
    IF Field(d, "Front").val THEN url \o <<"/", "F", "r", "o", "n", "t">> ELSE url
FrontSuffix(d, url) ==
    IF Field(d, "Front").val /\ Field(d, "CallSid").val = <<>> THEN url \o <<"/", "F", "r", "o", "n", "t">> ELSE url

\* The second switch of urlString: the additions of particular request types.
TypeSuffix(d, url) ==
    CASE d.type = "Recording" -> RecordingSuffix(d, url)
      [] d.type = "AvailablePhoneNumbers" ->
            LET u1 == IF Field(d, "CountryCode").val # <<>>
                      THEN url \o <<"/">> \o Field(d, "CountryCode").val ELSE url
            IN  IF Field(d, "Type").val # <<>> THEN u1 \o <<"/">> \o Field(d, "Type").val ELSE u1
      [] d.type = "Message" ->
            IF Field(d, "Media").val
            THEN IF Field(d, "MediaSid").val # <<>>
                 THEN url \o <<"/", "M", "e", "d", "i", "a">> \o <<"/">> \o Field(d, "MediaSid").val
                 ELSE url \o <<"/", "M", "e", "d", "i", "a">>
            ELSE url
      [] d.type = "Call" ->
            IF Field(d, "Recordings").val THEN url \o <<"/", "R", "e", "c", "o", "r", "d", "i", "n", "g", "s">>
            ELSE IF Field(d, "Notifications").val THEN url \o <<"/", "N", "o", "t", "i", "f", "i", "c", "a", "t", "i", "o", "n", "s">>
            ELSE url
      [] d.type = "UsageRecords" -> url \o <<"/">> \o Field(d, "SubResource").val
      [] d.type = "QueueMember" -> FrontSuffix(d, url)
      [] d.type = "DeQueue" -> FrontSuffix(d, url)
      [] OTHER -> url

urlString(d, accSid) ==
    [url |-> TypeSuffix(d, GenericUrl(d, accSid)),
     err |-> IF HasField(d, "Sid") THEN required(StringOf(Field(d, "Sid"))) ELSE Nil]

(***************************************************************************)
(* httpRequest                                                             *)
(***************************************************************************)
NoBody == [present |-> FALSE, data |-> <<>>]
NoRequest == [method |-> "", url |-> <<>>, body |-> NoBody,
              user |-> <<>>, pass |-> <<>>, contentType |-> <<>>, accept |-> <<>>]

DeleteTypes ==
    {"DeleteNotification", "DeleteOutgoingCallerId", "DeleteRecording",
     "DeleteParticipant", "DeleteQueue"}
PostTypes ==
    {"SendMessage", "MakeCall", "ModifyCall", "CreateQueue", "ChangeQueue", "DeQueue",
     "UpdateParticipant", "UpdateOutgoingCallerId", "CreateIncomingPhoneNumber",
     "AddOutgoingCallerId"}

MethodNoDeQueue(d) ==
    IF d.type \in DeleteTypes THEN "DELETE"
    ELSE IF d.type \in PostTypes \ {"DeQueue"} THEN "POST" ELSE "GET"
\* The switch on the request type in httpRequest.
Method(d) ==
    IF d.type \in DeleteTypes THEN "DELETE"
    ELSE IF d.type \in PostTypes THEN "POST" ELSE "GET"

IsHex(c) ==
    c \in {"0", "1", "2", "3", "4", "5", "6", "7", "8", "9",
           "a", "b", "c", "d", "e", "f", "A", "B", "C", "D", "E", "F"}
\* url.Parse inside http.NewRequest: in the path (the text before the first ?)
\* every % must start a %XX escape; the query is kept as it is.
ParseOK(url) ==
    LET path == Head(Split(url, "?"))
    IN  \A i \in DOMAIN path :
            path[i] = "%" =>
                i + 2 <= Len(path) /\ IsHex(path[i + 1]) /\ IsHex(path[i + 2])

NewRequest(method, url, body) ==
    IF ParseOK(url)
    THEN [req |-> [NoRequest EXCEPT !.method = method, !.url = url, !.body = body],
          err |-> Nil]
    ELSE [req |-> NoRequest, err |-> Errorf(ParseMsg)]

httpRequest(d, accSid) ==
    LET u == urlString(d, accSid)
        queryStr == queryString(d)
    IN  IF ~u.err.nil THEN [req |-> NoRequest, err |-> u.err]
        ELSE IF Method(d) = "GET"
             THEN NewRequest("GET",
                             IF queryStr # <<>> THEN u.url \o <<"?">> \o queryStr ELSE u.url,
                             NoBody)
             ELSE NewRequest(Method(d), u.url, [present |-> TRUE, data |-> queryStr])

(***************************************************************************)
(* TwilioClient.Request                                                    *)
(***************************************************************************)
NoException == [present |-> FALSE, Code |-> 0, Detail |-> <<>>, MoreInfo |-> <<>>]
\* TwilioResponse{}: the fresh envelope of one call.
EmptyResponse == [Status |-> [Http |-> 0, Twilio |-> 0], Exception |-> NoException]

\* What the transport gives back: an error, or a response whose body holds the
\* exception element the decoder finds in it (none, a full one, an empty one).
NoReply == [kind |-> "none", err |-> Nil, StatusCode |-> 0, Exception |-> NoException]
Exceptions ==
    {NoException,
     [present |-> TRUE, Code |-> 20003, Detail |-> <<"A", "u", "t", "h", "e", "n", "t", "i", "c", "a", "t", "i", "o", "n", " ", "E", "r", "r", "o", "r">>,
      MoreInfo |-> <<"h", "t", "t", "p", "s", ":", "/", "/", "w", "w", "w", ".", "e", "x", "a", "m", "p", "l", "e", ".", "c", "o", "m", "/", "e", "r", "r", "o", "r", "s">>],
     [present |-> TRUE, Code |-> 0, Detail |-> <<>>, MoreInfo |-> <<>>]}
StatusCodes == {200, 401, 500}
Replies ==
    {[NoReply EXCEPT !.kind = "error", !.err = Errorf(TransportMsg)]}
    \cup {[NoReply EXCEPT !.kind = "response", !.StatusCode = s, !.Exception = e] :
             s \in StatusCodes, e \in Exceptions}

\* xml.Unmarshal(body, &twiResp): fills the exception of the envelope from the
\* body and leaves the status fields as they are; its error is dropped.
Unmarshal(body, twiResp) == [twiResp EXCEPT !.Exception = body.Exception]

exceptionToErrNoInfo(twir) ==
    IF twir.Exception.present
    THEN [code |-> twir.Exception.Code, err |-> Errorf(twir.Exception.Detail)]
    ELSE [code |-> 0, err |-> Nil]
exceptionToErr(twir) ==
    IF twir.Exception.present
    THEN [code |-> twir.Exception.Code,
          err |-> Errorf(twir.Exception.Detail \o <<" ", "(">> \o twir.Exception.MoreInfo \o <<")">>)]
    ELSE [code |-> 0, err |-> Nil]

BasicAuthUserAccount(c) == c.accountSid
\* The user name Request gives to SetBasicAuth.
BasicAuthUser(c) == IF c.authUser # <<>> THEN c.authUser ELSE c.accountSid

\* The request as Request hands it to the transport.
WithAuth(req, c) ==
    [req EXCEPT !.user = BasicAuthUser(c), !.pass = c.authToken,
                !.contentType = <<"a", "p", "p", "l", "i", "c", "a", "t", "i", "o", "n", "/", "x", "-", "w", "w", "w", "-", "f", "o", "r", "m", "-", "u", "r", "l", "e", "n", "c", "o", "d", "e", "d">>, !.accept = <<"*", "/", "*">>]

RequestRetry(c, d, o) ==
    LET h == httpRequest(d, c.accountSid)
    IN  IF ~h.err.nil
        THEN [sent |-> <<>>, reply |-> NoReply, resp |-> EmptyResponse, err |-> h.err]
        ELSE IF o.kind = "error"
        THEN [sent |-> <<WithAuth(h.req, c), WithAuth(h.req, c)>>, reply |-> o,
              resp |-> EmptyResponse, err |-> o.err]
        ELSE LET r1 == [EmptyResponse EXCEPT !.Status.Http = o.StatusCode]
                 r2 == Unmarshal(o, r1)
                 e == exceptionToErr(r2)
             IN  [sent |-> <<WithAuth(h.req, c)>>, reply |-> o,
                  resp |-> [r2 EXCEPT !.Status.Twilio = e.code], err |-> e.err]
\* One call of Request on client c with request struct d, the transport
\* answering o: the requests executed, the reply taken, and the two results.
Request(c, d, o) ==
    LET h == httpRequest(d, c.accountSid)
    IN  IF ~h.err.nil
        THEN [sent |-> <<>>, reply |-> NoReply, resp |-> EmptyResponse, err |-> h.err]
        ELSE IF o.kind = "error"
        THEN [sent |-> <<WithAuth(h.req, c)>>, reply |-> o,
              resp |-> EmptyResponse, err |-> o.err]
        ELSE LET r1 == [EmptyResponse EXCEPT !.Status.Http = o.StatusCode]
                 r2 == Unmarshal(o, r1)
                 e == exceptionToErr(r2)
             IN  [sent |-> <<WithAuth(h.req, c)>>, reply |-> o,
                  resp |-> [r2 EXCEPT !.Status.Twilio = e.code], err |-> e.err]

(***************************************************************************)
(* The state machine                                                       *)
(***************************************************************************)
NoStruct == Struct("", <<>>)

Init ==
    /\ client = NoClient
    /\ authBits = <<>>
    /\ pc = "start"
    /\ reqStruct = NoStruct
    /\ sent = <<>>
    /\ reply = NoReply
    /\ ret = [resp |-> EmptyResponse, err |-> Nil]

\* The program calls NewClient with some argument list.
NewClientCall ==
    /\ pc = "start"
    /\ \E bits \in ArgLists :
          LET r == NewClient(bits)
          IN  /\ authBits' = bits
              /\ client' = r.c
              /\ pc' = IF r.err.nil THEN "ready" ELSE "failed"
    /\ UNCHANGED <<reqStruct, sent, reply, ret>>

\* The program calls Request; the call runs to its return.
RequestCall ==
    /\ pc = "ready"
    /\ \E d \in Structs, o \in Replies :
          LET r == Request(client, d, o)
          IN  /\ reqStruct' = d
              /\ sent' = r.sent
              /\ reply' = r.reply
              /\ ret' = [resp |-> r.resp, err |-> r.err]
    /\ pc' = "returned"
    /\ UNCHANGED <<client, authBits>>

\* The caller is done with the returned values; the client is ready for the
\* next call, which starts from a fresh envelope.
NextCall ==
    /\ pc = "returned"
    /\ pc' = "ready"
    /\ reqStruct' = NoStruct
    /\ sent' = <<>>
    /\ reply' = NoReply
    /\ ret' = [resp |-> EmptyResponse, err |-> Nil]
    /\ UNCHANGED <<client, authBits>>

Next == NewClientCall \/ RequestCall \/ NextCall

Spec == Init /\ [][Next]_vars

(***************************************************************************)
(* Properties                                                              *)
(***************************************************************************)
\* Text predicates of the properties.
HasPrefix(s, p) == Len(s) >= Len(p) /\ SubSeq(s, 1, Len(p)) = p
HasSuffix(s, p) == Len(s) >= Len(p) /\ SubSeq(s, Len(s) - Len(p) + 1, Len(s)) = p
Contains(s, p) == \E i \in 1..(Len(s) - Len(p) + 1) : SubSeq(s, i, i + Len(p) - 1) = p
Count(s, c) == Cardinality({i \in DOMAIN s : s[i] = c})

\* A Request call has returned; reqStruct, sent, reply and ret describe it.
Done == pc = "returned"
\* What urlString builds for the call's request struct.
Built == urlString(reqStruct, client.accountSid)
\* The URL after its scheme prefix https://
AfterScheme(url) == SubSeq(url, Len(<<"h", "t", "t", "p", "s", ":", "/", "/">>) + 1, Len(url))

\* C1: for every request struct that declares a Sid field, a Request made with
\* an empty Sid returns the "required field missing" error, the URL build
\* returns that error too, and the call executes no request on the transport.
C1_EmptySidRejected ==
    (Done /\ HasField(reqStruct, "Sid") /\ Field(reqStruct, "Sid").val = <<>>)
    => /\ Built.err = Errorf(RequiredMsg)
       /\ ret.err = Errorf(RequiredMsg)
       /\ sent = <<>>
       /\ reply.kind = "none"
C1_Witness ==
    /\ Done
    /\ reqStruct.type = "DeleteQueue"
    /\ Field(reqStruct, "Sid").val = <<>>
    /\ ret.err.msg = RequiredMsg
    /\ sent = <<>>

\* C2: when Request received a response, the envelope's HTTP status is the
\* status code of that response; if the envelope carries an exception the
\* error is non-nil, its message holds the exception's detail and info URL and
\* the provider status equals the exception code; if not, the error is nil.
C2_ResponseToError ==
    (Done /\ reply.kind = "response")
    => /\ ret.resp.Status.Http = reply.StatusCode
       /\ ret.resp.Exception = reply.Exception
       /\ IF ret.resp.Exception.present
          THEN /\ ~ret.err.nil
               /\ Contains(ret.err.msg, ret.resp.Exception.Detail)
               /\ Contains(ret.err.msg, ret.resp.Exception.MoreInfo)
               /\ ret.resp.Status.Twilio = ret.resp.Exception.Code
          ELSE ret.err.nil
C2_Witness ==
    /\ Done
    /\ reply.kind = "response"
    /\ reply.StatusCode = 401
    /\ ret.resp.Status.Http = 401
    /\ ret.resp.Status.Twilio = 20003
    /\ ret.err.msg = <<"A", "u", "t", "h", "e", "n", "t", "i", "c", "a", "t", "i", "o", "n", " ", "E", "r", "r", "o", "r", " ", "(", "h", "t", "t", "p", "s", ":", "/", "/", "w", "w", "w", ".", "e", "x", "a", "m", "p", "l", "e", ".", "c", "o", "m", "/", "e", "r", "r", "o", "r", "s", ")">>

\* The classification the claim C3 states.
C3Deletes ==
    {"DeleteNotification", "DeleteOutgoingCallerId", "DeleteRecording",
     "DeleteParticipant", "DeleteQueue"}
C3Posts ==
    {"SendMessage", "MakeCall", "ModifyCall", "CreateQueue", "ChangeQueue", "DeQueue",
     "UpdateParticipant", "AddOutgoingCallerId", "UpdateOutgoingCallerId",
     "CreateIncomingPhoneNumber"}
C3Method(type) ==
    IF type \in C3Deletes THEN "DELETE" ELSE IF type \in C3Posts THEN "POST" ELSE "GET"

\* C3: the method of a request is DELETE for the five delete types, POST for
\* the ten create/modify types and GET for every other type; a GET carries the
\* non-empty query string after ? in the URL and has no body; a POST or DELETE
\* carries the query string as its body and its URL has no ?.
C3_MethodAndPlacement ==
    Done =>
        /\ Method(reqStruct) = C3Method(reqStruct.type)
        /\ \A i \in DOMAIN sent :
              LET q == queryString(reqStruct)
              IN  /\ sent[i].method = C3Method(reqStruct.type)
                  /\ sent[i].method = "GET" =>
                        /\ ~sent[i].body.present
                        /\ q # <<>> => sent[i].url = Built.url \o <<"?">> \o q
                        /\ q = <<>> => sent[i].url = Built.url
                  /\ sent[i].method # "GET" =>
                        /\ sent[i].body.present
                        /\ sent[i].body.data = q
                        /\ sent[i].url = Built.url
                        /\ Count(sent[i].url, "?") = 0
C3_Witness ==
    /\ Done
    /\ Len(sent) = 1
    /\ reqStruct.type = "DeQueue"
    /\ sent[1].method = "POST"
    /\ sent[1].body.data = <<"U", "r", "l", "=", "b", "+", "%", "2", "6">>
    /\ Count(sent[1].url, "?") = 0

\* The entries the claim C4 asks for: one per tagged non-empty string field,
\* one per element of a tagged non-empty sequence, in declaration order.
ExpectedEntries(d) ==
    Concat([i \in DOMAIN d.fields |->
        LET f == d.fields[i]
        IN  IF f.kind = "string" /\ f.tag # <<>> /\ f.val # <<>>
            THEN <<f.tag \o QueryEscape(f.val)>>
            ELSE IF f.kind = "slice" /\ f.tag # <<>>
            THEN [j \in DOMAIN f.val |-> f.tag \o QueryEscape(f.val[j])]
            ELSE <<>>])
RECURSIVE Join(_, _)
Join(es, sep) ==
    IF es = <<>> THEN <<>>
    ELSE IF Len(es) = 1 THEN es[1] ELSE es[1] \o sep \o Join(Tail(es), sep)

\* C4: for every request type the query encoder emits the expected entries,
\* joined by &.
C4_EncodesEveryType ==
    Done => queryString(reqStruct) = Join(ExpectedEntries(reqStruct), <<"&">>)

\* The number of entries the fields of d qualify for.
NumEntries(d) == Len(ExpectedEntries(d))
Qualifies(f) ==
    /\ f.tag # <<>>
    /\ \/ f.kind = "string" /\ f.val # <<>>
       \/ f.kind = "slice" /\ Len(f.val) > 0

\* C5: the encoder's output holds no entry for a field without a tag or with
\* an empty value, never begins or ends with &, holds no unescaped & or space
\* of a value, and is empty when no field qualifies.
C5_QueryWellFormed ==
    Done =>
        LET q == queryString(reqStruct)
            entries == IF q = <<>> THEN <<>> ELSE Split(q, "&")
            flds == {reqStruct.fields[i] : i \in DOMAIN reqStruct.fields}
        IN  /\ \A i \in DOMAIN entries :
                  \E f \in flds : Qualifies(f) /\ HasPrefix(entries[i], f.tag)
            /\ \A f \in flds :
                  (f.tag # <<>> /\ ~Qualifies(f)) =>
                      \A i \in DOMAIN entries : ~HasPrefix(entries[i], f.tag)
            /\ Len(entries) <= NumEntries(reqStruct)
            /\ q # <<>> => (q[1] # "&" /\ q[Len(q)] # "&")
            /\ Count(q, " ") = 0
            /\ (\A f \in flds : ~Qualifies(f)) => q = <<>>
C5_Witness ==
    /\ Done
    /\ reqStruct.type = "SendMessage"
    /\ Field(reqStruct, "Text").val = <<"b", " ", "&">>
    /\ Field(reqStruct, "MediaUrl").val = <<<<"u", "&", "v">>, <<>>>>
    /\ Field(reqStruct, "To").val = <<>>
    /\ Len(sent) = 1
    /\ sent[1].body.data = <<"B", "o", "d", "y", "=", "b", "+", "%", "2", "6", "&", "M", "e", "d", "i", "a", "U", "r", "l", "=", "u", "%", "2", "6", "v", "&", "M", "e", "d", "i", "a", "U", "r", "l", "=">>

\* C6: for a Recording the built path ends in .json when GetRecording is
\* unset, is the generic path when GetRecording alone is set, ends in .mp3
\* when both flags are set, and never has both suffixes.
C6_RecordingSuffix ==
    (Done /\ reqStruct.type = "Recording" /\ Built.err.nil) =>
        LET g == Field(reqStruct, "GetRecording").val
            m == Field(reqStruct, "GetMP3").val
            generic == GenericUrl(reqStruct, client.accountSid)
        IN  /\ ~g => (Built.url = generic \o <<".", "j", "s", "o", "n">> /\ ~Contains(Built.url, <<".", "m", "p", "3">>))
            /\ (g /\ ~m) => Built.url = generic
            /\ (g /\ m) => (Built.url = generic \o <<".", "m", "p", "3">> /\ ~Contains(Built.url, <<".", "j", "s", "o", "n">>))
            /\ \A i \in DOMAIN sent : sent[i].url = Built.url
C6_Witness ==
    /\ Done
    /\ reqStruct.type = "Recording"
    /\ ~Field(reqStruct, "GetRecording").val
    /\ Field(reqStruct, "GetMP3").val
    /\ Len(sent) = 1
    /\ HasSuffix(sent[1].url, <<"/", "R", "e", "c", "o", "r", "d", "i", "n", "g", "s", "/", "S", "1", ".", "j", "s", "o", "n">>)

\* What C7 says of every request a call executed, but for the user name.
C7Common ==
    \A i \in DOMAIN sent :
        /\ sent[i].pass = authBits[Len(authBits)]
        /\ sent[i].pass = client.authToken
        /\ HasField(reqStruct, "resource") =>
              HasPrefix(sent[i].url,
                        BaseUrl \o <<"/">> \o authBits[1] \o Field(reqStruct, "resource").tag)

\* C7 as stated: the user name is the API-key id whenever NewClient was given
\* three credentials, and the account id when it was given two.
C7_Original ==
    Done =>
        /\ C7Common
        /\ \A i \in DOMAIN sent :
              sent[i].user = IF Len(authBits) = 3 THEN authBits[2] ELSE authBits[1]

\* C7 amended: the user name is the API-key id when NewClient was given three
\* credentials and a non-empty API-key id; it is the account id when it was
\* given two credentials or an empty API-key id.  The password is the auth
\* token and the account id is the one in the URL path in every case.
C7_BasicAuth ==
    Done =>
        /\ C7Common
        /\ \A i \in DOMAIN sent :
              sent[i].user = IF Len(authBits) = 3 /\ authBits[2] # <<>>
                             THEN authBits[2] ELSE authBits[1]
C7_Witness ==
    /\ Done
    /\ Len(authBits) = 3
    /\ Len(sent) = 1
    /\ sent[1].user = <<"S", "K", "1">>
    /\ sent[1].pass = <<"t", "o", "k">>
    /\ HasPrefix(sent[1].url, BaseUrl \o <<"/", "A", "C", "1", "/">>)

C9_AtMostOneRequest ==
    /\ Len(sent) <= 1
    /\ Done =>
          /\ Len(sent) = 0 <=> ~httpRequest(reqStruct, client.accountSid).err.nil
          /\ Len(sent) = 0 => (reply.kind = "none" /\ ~ret.err.nil)
          /\ reply.kind = "error" => (Len(sent) = 1 /\ ret.err = reply.err)
          /\ (reply.kind = "response" /\ reply.Exception.present) =>
                (Len(sent) = 1 /\ ~ret.err.nil)
C9_Witness ==
    /\ Done
    /\ reply.kind = "error"
    /\ Len(sent) = 1
    /\ ret.err.msg = TransportMsg

\* C10: when the URL builds with a non-empty account id, it holds no empty
\* path segment: no // after https://.  The URL is read off the request the
\* call executed: the built URL, followed for a GET by ? and the escaped query.
C10_NoEmptySegment ==
    (Done /\ Built.err.nil /\ client.accountSid # <<>>) =>
        \A i \in DOMAIN sent : ~Contains(AfterScheme(sent[i].url), <<"/", "/">>)

====
